---- MODULE Spec2Model ----
(***************************************************************************)
(* Timetable generator: build_vars_domains and solve_timetable of          *)
(* src/csp2.py and of src/streamlit_app_v4.py.                             *)
(*                                                                         *)
(* The two files hold two implementations of the same pipeline.  The       *)
(* variable impl says which one runs: "csp2" (src/csp2.py) or "app"        *)
(* (src/streamlit_app_v4.py).  They differ in two places: the app          *)
(* shuffles every domain it builds (random.shuffle) and scans a domain in  *)
(* its stored order, while csp2 keeps the enumeration order and scans the  *)
(* domain sorted by (qualified, preferred) descending.                     *)
(*                                                                         *)
(* A LectureVar has no __eq__ / __hash__: it is compared and hashed by     *)
(* object identity.  A variable is therefore identified by its position    *)
(* in the list `variables`; two positions may hold equal fields.           *)
(***************************************************************************)
EXTENDS Integers, Sequences, FiniteSets

VARIABLES
    impl,             \* which source file runs: "csp2" or "app"
    pc,               \* "preprocess", "build", "call", "loop", "done"
    sections,         \* rows of the Sections sheet: [Level, Group, StudentCount, Courses]
    courses,          \* dict course id -> [type]
    instructors,      \* dict (insertion order) of [id, quals, prefs]
    rooms,            \* dict (insertion order) of [id, type, capacity]
    timeslots,        \* list of timeslot ids
    lecture_groups,   \* list of [group_name, year, students, courses]
    variables,        \* list of LectureVar: [course, section, year, students]
    domains,          \* dict variable -> list of options
    shuffled,         \* TRUE iff the stored order of the domains is a random shuffle
    sorted_vars,      \* solve_timetable: the sorted list of variables
    k,                \* solve_timetable: position of the for loop in sorted_vars
    assigned,         \* solve_timetable: dict variable -> option
    failed_assignments, \* solve_timetable: list of variables
    used_room_ts,     \* set of <<timeslot, room>>
    used_instr_ts,    \* set of <<timeslot, instructor>>
    used_section_ts,  \* set of <<timeslot, group key>>
    earlier           \* what the earlier calls of solve_timetable returned

vars == <<impl, pc, sections, earlier, courses, instructors, rooms, timeslots, lecture_groups,
          variables, domains, shuffled, sorted_vars, k, assigned,
          failed_assignments, used_room_ts, used_instr_ts, used_section_ts>>

entities == <<courses, instructors, rooms, timeslots, lecture_groups>>
solver == <<sorted_vars, k, assigned, failed_assignments,
            used_room_ts, used_instr_ts, used_section_ts>>

(***************************************************************************)
(* Bounds of the model.                                                    *)
(***************************************************************************)
MaxStudents == 2      \* student counts and room capacities range over 1..MaxStudents

Range(s) == {s[n] : n \in DOMAIN s}

(***************************************************************************)
(* An option is the tuple (t, r_id, instr_id, is_qualified, is_preferred). *)
(***************************************************************************)
OptT(o) == o[1]
OptRoom(o) == o[2]
OptInstr(o) == o[3]
OptQual(o) == o[4]
OptPref(o) == o[5]

(***************************************************************************)
(* Category strings.  compatible_room only asks whether a lower-cased      *)
(* category contains one of five substrings; Signals gives, for each       *)
(* category string of the model, the substrings among them it contains.    *)
(***************************************************************************)
CourseTypes == {"lecture", "lab", "tutorial"}
RoomTypes == {"lab", "classroom", "hall", "theater", "office"}

Signals(s) ==
    CASE s = "lecture" -> {"lec"}
      [] s = "lab" -> {"lab"}
      [] s = "classroom" -> {"classroom"}
      [] s = "hall" -> {"hall"}
      [] s = "theater" -> {"theater"}
      [] OTHER -> {}

\* Python's `sub in s` on the lower-cased category
Contains(sub, s) == sub \in Signals(s)

compatible_room_theater_fallback(course_type, room_type) ==
    \/ Contains("lab", course_type) /\ Contains("lab", room_type)
    \/ Contains("classroom", room_type)
    \/ Contains("hall", room_type)
    \/ Contains("theater", room_type)

compatible_room(course_type, room_type) ==
    IF Contains("lab", course_type) /\ Contains("lab", room_type) THEN TRUE
    ELSE IF Contains("lec", course_type)
            /\ (Contains("classroom", room_type) \/ Contains("hall", room_type)
                \/ Contains("theater", room_type)) THEN TRUE
    ELSE IF Contains("lab", course_type)
            /\ (Contains("classroom", room_type) \/ Contains("hall", room_type)
                \/ Contains("theater", room_type)) THEN TRUE
    ELSE IF Contains("classroom", room_type) \/ Contains("hall", room_type) THEN TRUE
    ELSE FALSE

(***************************************************************************)
(* build_vars_domains                                                      *)
(***************************************************************************)
\* `if r_info["capacity"] < students: continue`
RoomFits_no_capacity_check(r_info, students) == TRUE

RoomFits(r_info, students) == ~(r_info.capacity < students)

\* `is_qualified = cid in i_info["quals"]`
IsQualified_any_instructor(cid, i_info) == TRUE

IsQualified(cid, i_info) == cid \in i_info.quals

\* `is_preferred = t in i_info["prefs"]`
IsPreferred(t, i_info) == t \in i_info.prefs

\* The (t, room, instructor) triples in the order of the three nested loops.
Triples ==
    LET nR == Len(rooms)
        nI == Len(instructors)
    IN  [n \in 1..(Len(timeslots) * nR * nI) |->
            <<timeslots[((n - 1) \div (nR * nI)) + 1],
              rooms[(((n - 1) \div nI) % nR) + 1],
              instructors[((n - 1) % nI) + 1]>>]

BuildDom_preferred_only(cid, ctype, students) ==
    LET Keep(x) == /\ compatible_room(ctype, x[2].type)
                   /\ RoomFits(x[2], students)
                   /\ IsQualified(cid, x[3])
                   /\ IsPreferred(x[1], x[3])
        kept == SelectSeq(Triples, Keep)
    IN  [n \in 1..Len(kept) |->
            <<kept[n][1], kept[n][2].id, kept[n][3].id,
              IsQualified(cid, kept[n][3]), IsPreferred(kept[n][1], kept[n][3])>>]

\* The list `dom` of one variable, in the order it is appended to.
BuildDom(cid, ctype, students) ==
    LET Keep(x) == /\ compatible_room(ctype, x[2].type)
                   /\ RoomFits(x[2], students)
                   /\ IsQualified(cid, x[3])
        kept == SelectSeq(Triples, Keep)
    IN  [n \in 1..Len(kept) |->
            <<kept[n][1], kept[n][2].id, kept[n][3].id,
              IsQualified(cid, kept[n][3]), IsPreferred(kept[n][1], kept[n][3])>>]

\* `course_info = courses.get(cid)`; `if not course_info: ... continue`
CourseKnown(cid) == cid \in DOMAIN courses

\* The (group, course position) pairs that get a variable, in loop order.
RECURSIVE BuildPairs_stops_at_unknown(_)
BuildPairs_stops_at_unknown(g) ==
    IF g > Len(lecture_groups) THEN <<>>
    ELSE LET cl == lecture_groups[g].courses
             unknown == {j \in DOMAIN cl : cl[j] \notin DOMAIN courses}
             stop == IF unknown = {} THEN Len(cl) + 1
                     ELSE CHOOSE j \in unknown : \A i \in unknown : j <= i
         IN  [j \in 1..(stop - 1) |-> <<g, j>>]
             \o (IF unknown = {} THEN BuildPairs_stops_at_unknown(g + 1) ELSE <<>>)

RECURSIVE BuildPairs(_)
BuildPairs(g) ==
    IF g > Len(lecture_groups) THEN <<>>
    ELSE LET cl == lecture_groups[g].courses
             Known(p) == CourseKnown(cl[p[2]])
         IN  SelectSeq([j \in 1..Len(cl) |-> <<g, j>>], Known) \o BuildPairs(g + 1)

\* LectureVar(cid, group_name, year, students)
LectureVar(course, section, year, students) ==
    [course |-> course, section |-> section, year |-> year, students |-> students]

BuiltVariables ==
    LET ps == BuildPairs(1)
    IN  [n \in 1..Len(ps) |->
            LET group == lecture_groups[ps[n][1]]
            IN  LectureVar(group.courses[ps[n][2]], group.group_name,
                           group.year, group.students)]

BuiltDomains ==
    LET vs == BuiltVariables
    IN  [n \in 1..Len(vs) |->
            BuildDom(vs[n].course, courses[vs[n].course].type, vs[n].students)]

(***************************************************************************)
(* solve_timetable                                                         *)
(***************************************************************************)
Vars == 1..Len(variables)

\* `domains.get(v, [])`
DomainsGet(v) == IF v \in DOMAIN domains THEN domains[v] ELSE <<>>

\* Tuples compare lexicographically.
PairLess(a, b) == a[1] < b[1] \/ (a[1] = b[1] /\ a[2] < b[2])

\* Python's sorted(s, key=..., reverse=...), keys[n] being the key of s[n].
\* The sort is stable, also with reverse=True: the result is the one
\* permutation in which s[i] comes before s[j] iff its key is smaller
\* (greater when reversed), or the keys are equal and i < j.
StableSort(s, keys, reverse) ==
    LET Before(i, j) == IF reverse THEN PairLess(keys[j], keys[i])
                                   ELSE PairLess(keys[i], keys[j])
        Pos(i) == 1 + Cardinality({j \in DOMAIN s :
                        \/ Before(j, i)
                        \/ (~Before(i, j) /\ j < i)})
    IN  [p \in 1..Len(s) |-> s[CHOOSE i \in DOMAIN s : Pos(i) = p]]

\* `key=lambda v: (-v.students, len(domains.get(v, [])))`
VarKey_students_ascending(v) == <<variables[v].students, Len(DomainsGet(v))>>

VarKey_students_only(v) == <<-variables[v].students, 0>>

VarKey(v) == <<-variables[v].students, Len(DomainsGet(v))>>

\* `sorted(variables, key=...)`
SortedVars ==
    StableSort([n \in Vars |-> n], [n \in Vars |-> VarKey(n)], FALSE)

\* False < True
B(b) == IF b THEN 1 ELSE 0

\* `key=lambda x: (x[3], x[4])`
OptKey(o) == <<B(OptQual(o)), B(OptPref(o))>>

\* `sorted(dom, key=..., reverse=True)`: descending, equal keys keep their order
SortedDomain(dom) ==
    StableSort(dom, [n \in DOMAIN dom |-> OptKey(dom[n])], TRUE)

\* The three `if ... in used_..._ts: continue` checks of one option.
Clashes_room_only(v, o) == <<OptT(o), OptRoom(o)>> \in used_room_ts

Clashes(v, o) ==
    \/ <<OptT(o), OptRoom(o)>> \in used_room_ts
    \/ <<OptT(o), OptInstr(o)>> \in used_instr_ts
    \/ <<OptT(o), variables[v].section>> \in used_section_ts

\* The list the inner for loop runs over: csp2 scans sorted_domain, the app
\* scans dom as stored.
ScanList(v) ==
    IF impl = "csp2" THEN SortedDomain(DomainsGet(v)) ELSE DomainsGet(v)

\* Position in s of the first option that passes the three checks, 0 if none.
FirstFree_head_only(v, s) == IF s # <<>> /\ ~Clashes(v, s[1]) THEN 1 ELSE 0

FirstFree(v, s) ==
    LET free == {n \in DOMAIN s : ~Clashes(v, s[n])}
    IN  IF free = {} THEN 0 ELSE CHOOSE n \in free : \A m \in free : n <= m

\* The options the inner loop can commit for v.  When the stored order is a
\* random shuffle (the app's build), the first clash-free option of the
\* stored list can be any clash-free option of the domain; otherwise it is
\* the first clash-free option of ScanList(v).
Candidates(v) ==
    IF shuffled
    THEN {o \in Range(DomainsGet(v)) : ~Clashes(v, o)}
    ELSE LET s == ScanList(v)
             n == FirstFree(v, s)
         IN  IF n = 0 THEN {} ELSE {s[n]}

\* `assigned[v] = option`
AssignedPut_replaces_all(v, o) == [x \in {v} |-> o]

AssignedPut(v, o) ==
    [x \in (DOMAIN assigned) \cup {v} |-> IF x = v THEN o ELSE assigned[x]]

\* `failed_assignments.append(v)`
FailedAppend_dropped(v) == failed_assignments

FailedAppend(v) == Append(failed_assignments, v)

(***************************************************************************)
(* Inputs.  A run starts either from entity data, which build_vars_domains *)
(* turns into variables and domains (main() of both files), or from a      *)
(* variable list and a domains dict handed directly to solve_timetable.    *)
(***************************************************************************)
Impls == {"csp2", "app"}
Students == 1..MaxStudents
GivenLens == {1, 2, 3}   \* lengths of the variable lists handed directly to solve_timetable

Room(id, type, capacity) == [id |-> id, type |-> type, capacity |-> capacity]
Instructor(id, quals, prefs) == [id |-> id, quals |-> quals, prefs |-> prefs]
Group(name, year, students, cl) ==
    [group_name |-> name, year |-> year, students |-> students, courses |-> cl]

RoomsChoices ==
    {<<Room("R1", ty, cap)>> \o more :
        ty \in RoomTypes, cap \in Students,
        more \in {<<>>, <<Room("R2", "lab", MaxStudents)>>}}

CoursesChoices ==
    {[c \in {"C1"} |-> [type |-> ty]] : ty \in CourseTypes}
    \cup {[c \in {"C1", "C2"} |-> [type |-> IF c = "C1" THEN ty ELSE "lecture"]] :
            ty \in CourseTypes}

InstructorsChoices ==
    {<<Instructor("I1", {"C1"}, p)>> \o more :
        p \in {{}, {"T2"}},
        more \in {<<>>, <<Instructor("I2", {"C2"}, {"T1"})>>}}

GroupsChoices ==
    {<<Group("1_A", 1, n, cl)>> \o more :
        n \in Students, cl \in {<<"C1">>, <<"C1", "C2">>, <<"C2", "C1">>, <<"C1", "C1">>},
        more \in {<<>>} \cup {<<Group("1_B", 1, MaxStudents, <<c>>)>> : c \in {"C1", "C2"}}}

\* Options of the directly given domains.
OptA == <<"T1", "R1", "I1", TRUE, FALSE>>
OptB == <<"T1", "R1", "I2", TRUE, TRUE>>
OptC == <<"T1", "R2", "I1", TRUE, TRUE>>
OptD == <<"T1", "R2", "I2", TRUE, FALSE>>
OptE == <<"T2", "R1", "I1", TRUE, TRUE>>
OptF == <<"T2", "R2", "I2", FALSE, TRUE>>

GivenDomains ==
    {<<>>, <<OptA>>, <<OptA, OptE>>, <<OptB, OptC, OptD>>, <<OptF, OptA>>}

GivenVars ==
    {LectureVar("C1", sec, 1, n) : sec \in {"1_A", "1_B"}, n \in Students}

SolverIdle ==
    /\ sorted_vars = <<>>
    /\ k = 0
    /\ assigned = <<>>
    /\ failed_assignments = <<>>
    /\ used_room_ts = {}
    /\ used_instr_ts = {}
    /\ used_section_ts = {}

InitBuilt ==
    /\ pc = "build"
    /\ courses \in CoursesChoices
    /\ instructors \in InstructorsChoices
    /\ rooms \in RoomsChoices
    /\ timeslots = <<"T1", "T2">>
    /\ lecture_groups \in GroupsChoices
    /\ variables = <<>>
    /\ domains = <<>>

InitGiven ==
    /\ pc = "call"
    /\ courses = <<>>
    /\ instructors = <<>>
    /\ rooms = <<>>
    /\ timeslots = <<>>
    /\ lecture_groups = <<>>
    /\ \E n \in GivenLens :
        /\ variables \in [1..n -> GivenVars]
        /\ \E D \in SUBSET (1..n) : domains \in [D -> GivenDomains]

Init ==
    /\ impl \in Impls
    /\ sections = <<>>
    /\ earlier = <<>>
    /\ shuffled = FALSE
    /\ SolverIdle
    /\ (InitBuilt \/ InitGiven)

(***************************************************************************)
(* Actions                                                                 *)
(***************************************************************************)
\* build_vars_domains(courses, instructors, rooms, timeslots, lecture_groups);
\* the app ends each domain with random.shuffle(dom).
Build ==
    /\ pc = "build"
    /\ variables' = BuiltVariables
    /\ domains' = BuiltDomains
    /\ shuffled' = (impl = "app")
    /\ pc' = "call"
    /\ UNCHANGED <<impl, sections, earlier, entities, solver>>

\* solve_timetable up to the for loop: the empty results and the sort.
Call_keeps_used_sets ==
    /\ pc = "call"
    /\ assigned' = <<>>
    /\ failed_assignments' = <<>>
    /\ sorted_vars' = SortedVars
    /\ k' = 1
    /\ pc' = "loop"
    /\ UNCHANGED <<impl, sections, earlier, entities, variables, domains, shuffled,
                   used_room_ts, used_instr_ts, used_section_ts>>

Call ==
    /\ pc = "call"
    /\ assigned' = <<>>
    /\ failed_assignments' = <<>>
    /\ used_room_ts' = {}
    /\ used_instr_ts' = {}
    /\ used_section_ts' = {}
    /\ sorted_vars' = SortedVars
    /\ k' = 1
    /\ pc' = "loop"
    /\ UNCHANGED <<impl, sections, earlier, entities, variables, domains, shuffled>>

\* The variable of the current loop iteration.
Cur == sorted_vars[k]

InLoop == pc = "loop" /\ k <= Len(sorted_vars)

\* `if not dom:` ... `failed_assignments.append(v); continue`
StepNoDomain_aborts ==
    /\ InLoop
    /\ DomainsGet(Cur) = <<>>
    /\ failed_assignments' = FailedAppend(Cur)
    /\ k' = k + 1
    /\ pc' = "done"
    /\ UNCHANGED <<impl, sections, earlier, entities, variables, domains, shuffled, sorted_vars,
                   assigned, used_room_ts, used_instr_ts, used_section_ts>>

StepNoDomain ==
    /\ InLoop
    /\ DomainsGet(Cur) = <<>>
    /\ failed_assignments' = FailedAppend(Cur)
    /\ k' = k + 1
    /\ UNCHANGED <<impl, sections, earlier, pc, entities, variables, domains, shuffled, sorted_vars,
                   assigned, used_room_ts, used_instr_ts, used_section_ts>>

\* The inner loop reaches an option that passes the three checks.
StepCommit ==
    /\ InLoop
    /\ DomainsGet(Cur) # <<>>
    /\ \E o \in Candidates(Cur) :
        /\ assigned' = AssignedPut(Cur, o)
        /\ used_room_ts' = used_room_ts \cup {<<OptT(o), OptRoom(o)>>}
        /\ used_instr_ts' = used_instr_ts \cup {<<OptT(o), OptInstr(o)>>}
        /\ used_section_ts' = used_section_ts \cup {<<OptT(o), variables[Cur].section>>}
    /\ k' = k + 1
    /\ UNCHANGED <<impl, sections, earlier, pc, entities, variables, domains, shuffled, sorted_vars,
                   failed_assignments>>

\* The inner loop ends with assigned_slot still False.
StepFail_marks_section ==
    /\ InLoop
    /\ DomainsGet(Cur) # <<>>
    /\ Candidates(Cur) = {}
    /\ failed_assignments' = FailedAppend(Cur)
    /\ used_section_ts' = used_section_ts
                            \cup {<<OptT(DomainsGet(Cur)[1]), variables[Cur].section>>}
    /\ k' = k + 1
    /\ UNCHANGED <<impl, sections, earlier, pc, entities, variables, domains, shuffled, sorted_vars,
                   assigned, used_room_ts, used_instr_ts>>

StepFail ==
    /\ InLoop
    /\ DomainsGet(Cur) # <<>>
    /\ Candidates(Cur) = {}
    /\ failed_assignments' = FailedAppend(Cur)
    /\ k' = k + 1
    /\ UNCHANGED <<impl, sections, earlier, pc, entities, variables, domains, shuffled, sorted_vars,
                   assigned, used_room_ts, used_instr_ts, used_section_ts>>

\* `return assigned, failed_assignments`
Return ==
    /\ pc = "loop"
    /\ k > Len(sorted_vars)
    /\ pc' = "done"
    /\ UNCHANGED <<impl, sections, earlier, entities, variables, domains, shuffled, solver>>

Next ==
    \/ Build
    \/ Call
    \/ StepNoDomain
    \/ StepCommit
    \/ StepFail
    \/ Return

Spec == Init /\ [][Next]_vars

(***************************************************************************)
(* preprocess: the grouping of the Sections sheet into lecture groups.     *)
(* Level and Group cells are strings, written as sequences of characters   *)
(* so that the f-string f"{level}_{group_id}" is a concatenation.          *)
(***************************************************************************)
\* The characters of the cells, in code point order.
Alphabet == <<"1", "3", "A", "_">>
CharRank(c) == CHOOSE n \in DOMAIN Alphabet : Alphabet[n] = c

\* Python's `<` on str.
RECURSIVE StrLess(_, _)
StrLess(a, b) ==
    IF a = <<>> THEN b # <<>>
    ELSE IF b = <<>> THEN FALSE
    ELSE IF Head(a) = Head(b) THEN StrLess(Tail(a), Tail(b))
    ELSE CharRank(Head(a)) < CharRank(Head(b))

\* `f"{level}_{group_id}"`
GroupKey(level, group_id) == level \o <<"_">> \o group_id

\* The keys of sections_df.groupby(['Level', 'Group']), which sorts them.
GroupbyKeys ==
    LET keys == {<<sections[n].Level, sections[n].Group>> : n \in DOMAIN sections}
        KeyLess(x, y) == \/ StrLess(x[1], y[1])
                         \/ (x[1] = y[1] /\ StrLess(x[2], y[2]))
    IN  [p \in 1..Cardinality(keys) |->
            CHOOSE x \in keys : Cardinality({y \in keys : KeyLess(y, x)}) = p - 1]

\* group_data: the rows of one key, in sheet order.
GroupData(key) ==
    LET OfKey(r) == r.Level = key[1] /\ r.Group = key[2]
    IN  SelectSeq(sections, OfKey)

\* `group_data['StudentCount'].sum()`
RECURSIVE SumStudentCount(_)
SumStudentCount(rows) ==
    IF rows = <<>> THEN 0 ELSE Head(rows).StudentCount + SumStudentCount(Tail(rows))

Preprocessed ==
    LET ks == GroupbyKeys
    IN  [p \in DOMAIN ks |->
            Group(GroupKey(ks[p][1], ks[p][2]), ks[p][1],
                  SumStudentCount(GroupData(ks[p])), GroupData(ks[p])[1].Courses)]

Level3 == <<"3">>
Level3A == <<"3", "_", "A">>
Group1 == <<"1">>
GroupA1 == <<"A", "_", "1">>
SheetLens == {1, 2}   \* numbers of rows of the Sections sheet

SectionRows ==
    [Level : {Level3, Level3A}, Group : {Group1, GroupA1},
     StudentCount : Students, Courses : {<<"C1">>, <<"C1", "C2">>}]

SectionsChoices == UNION {[1..n -> SectionRows] : n \in SheetLens}

InitSheets ==
    /\ impl \in Impls
    /\ pc = "preprocess"
    /\ sections \in SectionsChoices
    /\ earlier = <<>>
    /\ shuffled = FALSE
    /\ SolverIdle
    /\ courses = [c \in {"C1", "C2"} |-> [type |-> "lecture"]]
    /\ instructors = <<Instructor("I1", {"C1", "C2"}, {}), Instructor("I2", {"C1", "C2"}, {})>>
    /\ rooms = <<Room("R1", "classroom", MaxStudents), Room("R2", "hall", MaxStudents)>>
    /\ timeslots = <<"T1", "T2">>
    /\ lecture_groups = <<>>
    /\ variables = <<>>
    /\ domains = <<>>

\* The grouping loop of preprocess; the entity maps it reads from the other
\* sheets are the ones of InitSheets.
Preprocess ==
    /\ pc = "preprocess"
    /\ lecture_groups' = Preprocessed
    /\ pc' = "build"
    /\ UNCHANGED <<impl, sections, earlier, courses, instructors, rooms, timeslots,
                   variables, domains, shuffled, solver>>

NextSheets ==
    \/ Preprocess
    \/ Next

SpecSheets == InitSheets /\ [][NextSheets]_vars

(***************************************************************************)
(* Two calls of solve_timetable on the same lists.  The caller keeps what  *)
(* the first call returned and calls again with the same variables and     *)
(* the same domains; the sets and results of a call are locals, made anew  *)
(* by Call.  A stored order that stands for a random shuffle is not one    *)
(* given list, so such a run is not repeated here: the app's scan of a     *)
(* given list is covered by the directly given inputs.                     *)
(***************************************************************************)
Rerun ==
    /\ pc = "done"
    /\ earlier = <<>>
    /\ ~shuffled
    /\ earlier' = <<[assigned |-> assigned, failed |-> failed_assignments]>>
    /\ pc' = "call"
    /\ UNCHANGED <<impl, sections, entities, variables, domains, shuffled, solver>>

NextTwice ==
    \/ Next
    \/ Rerun

SpecTwice == Init /\ [][NextTwice]_vars

(***************************************************************************)
(* Vocabulary of the properties                                            *)
(***************************************************************************)
Committed == DOMAIN assigned
Failed == Range(failed_assignments)
Attempted(v) == v \in Committed \/ v \in Failed

\* The run started from entity data and build_vars_domains has run.
FromBuild == lecture_groups # <<>> /\ pc # "build"

\* An option meets a (timeslot, room), (timeslot, instructor) or
\* (timeslot, group key) pair that is already used.
OptionClashes(v, o) ==
    \/ <<o[1], o[2]>> \in used_room_ts
    \/ <<o[1], o[3]>> \in used_instr_ts
    \/ <<o[1], variables[v].section>> \in used_section_ts

RoomOf(id) == CHOOSE r \in Range(rooms) : r.id = id
InstructorOf(id) == CHOOSE i \in Range(instructors) : i.id = id

(***************************************************************************)
(* C1: in every state of solve_timetable no two distinct committed         *)
(* assignments share a (timeslot, room) pair, a (timeslot, instructor)     *)
(* pair or a (timeslot, group key) pair.                                   *)
(***************************************************************************)
C1_NoDoubleBooking ==
    \A u \in Committed : \A v \in Committed :
        u # v =>
            /\ <<assigned[u][1], assigned[u][2]>> # <<assigned[v][1], assigned[v][2]>>
            /\ <<assigned[u][1], assigned[u][3]>> # <<assigned[v][1], assigned[v][3]>>
            /\ <<assigned[u][1], variables[u].section>>
                   # <<assigned[v][1], variables[v].section>>

\* Two assignments share a timeslot, and a third variable failed on a clash.
C1_Witness ==
    /\ pc = "done"
    /\ \E u \in Committed : \E v \in Committed :
        u # v /\ assigned[u][1] = assigned[v][1]
    /\ \E w \in Failed : DomainsGet(w) # <<>>

(***************************************************************************)
(* C2: when solve_timetable returns, every variable of the input list is   *)
(* either a key of assigned or an element of failed_assignments, never     *)
(* both, and it is in failed_assignments at most once; nothing else is     *)
(* classified.                                                             *)
(***************************************************************************)
C2_ClassifiedOnce ==
    pc = "done" =>
        /\ \A v \in Vars : (v \in Committed) # (v \in Failed)
        /\ Committed \cup Failed \subseteq Vars
        /\ \A a \in DOMAIN failed_assignments : \A b \in DOMAIN failed_assignments :
               failed_assignments[a] = failed_assignments[b] => a = b

\* A variable without an entry in domains, and two variables with the same
\* course and group key of which one is assigned and one failed.
C2_Witness ==
    /\ pc = "done"
    /\ \E v \in Vars : v \notin DOMAIN domains
    /\ \E u \in Committed : \E w \in Failed :
        /\ variables[u].course = variables[w].course
        /\ variables[u].section = variables[w].section

(***************************************************************************)
(* C3: for built variables and domains, every committed assignment uses a  *)
(* room whose capacity is at least the variable's student count.           *)
(***************************************************************************)
C3_CapacityRespected ==
    FromBuild =>
        \A v \in Committed :
            RoomOf(assigned[v][2]).capacity >= variables[v].students

\* A committed variable for which some compatible room was too small.
C3_Witness ==
    /\ FromBuild
    /\ \E v \in Committed : \E r \in Range(rooms) :
        /\ r.capacity < variables[v].students
        /\ r.type \in {"classroom", "hall"}

(***************************************************************************)
(* C4: for built variables and domains, the instructor of every committed  *)
(* assignment is qualified for the variable's course, and the option's     *)
(* qualification flag is true.                                             *)
(***************************************************************************)
C4_QualificationRespected ==
    FromBuild =>
        \A v \in Committed :
            /\ variables[v].course \in InstructorOf(assigned[v][3]).quals
            /\ assigned[v][4] = TRUE

\* A committed variable whose course some instructor is not qualified for.
C4_Witness ==
    /\ FromBuild
    /\ \E v \in Committed : \E i \in Range(instructors) :
        variables[v].course \notin i.quals

(***************************************************************************)
(* C5: for built variables and domains, every committed assignment pairs   *)
(* a course category and a room category of the five-rule cascade: lab     *)
(* with lab; lecture or lab with classroom, hall or theater; any course    *)
(* category with classroom or hall; nothing else.  compatible_room accepts *)
(* exactly these pairs.                                                    *)
(***************************************************************************)
CascadePairs ==
    {<<"lab", "lab">>}
    \cup ({"lecture", "lab"} \X {"classroom", "hall", "theater"})
    \cup (CourseTypes \X {"classroom", "hall"})

C5_CompatibilityRespected ==
    /\ FromBuild =>
        \A v \in Committed :
            <<courses[variables[v].course].type, RoomOf(assigned[v][2]).type>>
                \in CascadePairs
    /\ \A c \in CourseTypes : \A r \in RoomTypes :
        compatible_room(c, r) <=> (<<c, r>> \in CascadePairs)

\* A course that is neither lecture nor lab is committed to a classroom or a
\* hall: the fallback rule decided.
C5_Witness ==
    /\ FromBuild
    /\ \E v \in Committed :
        /\ courses[variables[v].course].type = "tutorial"
        /\ RoomOf(assigned[v][2]).type \in {"classroom", "hall"}

C7_LargerDomainFirst ==
    \A u \in Vars : \A v \in Vars :
        (/\ variables[u].students = variables[v].students
         /\ Len(DomainsGet(u)) > Len(DomainsGet(v))
         /\ Attempted(v))
        => Attempted(u)

(***************************************************************************)
(* C7, amended: among variables with equal student count, the variable     *)
(* with the smaller domain (fewer options, an absent entry counting as     *)
(* none) is attempted before the one with the larger domain.               *)
(***************************************************************************)
C7_SmallerDomainFirst ==
    \A u \in Vars : \A v \in Vars :
        (/\ variables[u].students = variables[v].students
         /\ Len(DomainsGet(u)) < Len(DomainsGet(v))
         /\ Attempted(v))
        => Attempted(u)

\* The variable with the smaller domain has been attempted, the one with the
\* larger domain, earlier in the input, has not.
C7_Witness ==
    \E u \in Vars : \E v \in Vars :
        /\ variables[u].students = variables[v].students
        /\ Len(DomainsGet(u)) < Len(DomainsGet(v))
        /\ v < u
        /\ Attempted(u)
        /\ ~Attempted(v)

(***************************************************************************)
(* C8, as stated: the option committed for a variable is the first one, in *)
(* the order of (qualification flag, preference flag) descending, that     *)
(* clears the three clash checks: it is clash-free at the variable's turn  *)
(* and no clash-free option of the domain has a higher (qualification,     *)
(* preference) key.  In particular a non-preferred option is committed     *)
(* only if every equally qualified preferred option clashes.               *)
(***************************************************************************)
\* The loop iteration of variable v is taken in this step.
TurnOf(v) ==
    /\ pc = "loop"
    /\ k <= Len(sorted_vars)
    /\ sorted_vars[k] = v
    /\ k' = k + 1

FlagKeyLess(a, b) ==
    \/ (~a[4] /\ b[4])
    \/ (a[4] = b[4] /\ ~a[5] /\ b[5])

C8_BestFlagsFirst ==
    [][\A v \in Vars :
        (TurnOf(v) /\ v \in DOMAIN assigned')
            => /\ ~OptionClashes(v, assigned'[v])
               /\ \A o \in Range(DomainsGet(v)) :
                    ~OptionClashes(v, o) => ~FlagKeyLess(assigned'[v], o)]_vars

(***************************************************************************)
(* C9: a variable whose domain is empty or absent is never assigned and    *)
(* is in the failed list as soon as its turn has passed, whatever the used *)
(* sets hold; the pass goes on, so that at the return every variable has   *)
(* been attempted.                                                         *)
(***************************************************************************)
PosOf(v) == CHOOSE n \in DOMAIN sorted_vars : sorted_vars[n] = v

C9_EmptyDomainFails ==
    \A v \in Vars :
        DomainsGet(v) = <<>> =>
            /\ v \notin Committed
            /\ pc \in {"loop", "done"} => (PosOf(v) < k => v \in Failed)
            /\ pc = "done" => \A w \in Vars : Attempted(w)

\* A variable with no options failed at a turn where the used sets were not
\* empty, and a variable after it was assigned.
C9_Witness ==
    /\ pc = "done"
    /\ \E v \in Failed :
        /\ DomainsGet(v) = <<>>
        /\ \E u \in Committed : PosOf(u) < PosOf(v)
        /\ \E w \in Committed : PosOf(w) > PosOf(v)

(***************************************************************************)
(* C10: a variable with a non-empty domain is recorded failed at its turn  *)
(* iff every option of its domain clashes with a used pair at that turn;   *)
(* otherwise it is committed to a clash-free option.  Every option of a    *)
(* failed variable with a non-empty domain clashes with a committed        *)
(* assignment in every later state.                                        *)
(***************************************************************************)
ClashesWith(v, o, w) ==
    /\ assigned[w][1] = o[1]
    /\ \/ assigned[w][2] = o[2]
       \/ assigned[w][3] = o[3]
       \/ variables[w].section = variables[v].section

C10_FailedIffAllClash ==
    /\ [][\A v \in Vars :
            (TurnOf(v) /\ DomainsGet(v) # <<>>)
                => /\ (v \in Range(failed_assignments'))
                        <=> (\A o \in Range(DomainsGet(v)) : OptionClashes(v, o))
                   /\ (\E o \in Range(DomainsGet(v)) : ~OptionClashes(v, o))
                        => /\ v \in DOMAIN assigned'
                           /\ ~OptionClashes(v, assigned'[v])
                           /\ assigned'[v] \in Range(DomainsGet(v))]_vars
    /\ [](\A v \in Failed :
            \A o \in Range(DomainsGet(v)) :
                \E w \in Committed : ClashesWith(v, o, w))

\* A variable failed although its domain holds several options, each one
\* blocked by a committed assignment.
C10_Witness ==
    /\ pc = "done"
    /\ \E v \in Failed :
        /\ Len(DomainsGet(v)) >= 2
        /\ \E w \in Committed : Len(DomainsGet(w)) >= 2

(***************************************************************************)
(* C11: a second call of solve_timetable on the same variable list and     *)
(* the same domains returns the same assignment for every variable and     *)
(* the same failed list as the first call, and it starts from empty used   *)
(* sets whatever the first call left in them.                              *)
(***************************************************************************)
C11_SameResultTwice ==
    /\ (pc = "done" /\ earlier # <<>>) =>
        /\ assigned = earlier[1].assigned
        /\ failed_assignments = earlier[1].failed
    /\ (pc = "loop" /\ earlier # <<>> /\ k = 1) =>
        /\ used_room_ts = {}
        /\ used_instr_ts = {}
        /\ used_section_ts = {}

\* The second call has returned; the first one had committed and failed
\* variables, so its used sets were not empty.
C11_Witness ==
    /\ pc = "done"
    /\ earlier # <<>>
    /\ Committed # {}
    /\ Failed # {}
    /\ \E v \in Failed : DomainsGet(v) # <<>>

(***************************************************************************)
(* C12: a course id of a lecture group that is absent from the course map  *)
(* gets no variable and no domain entry, the build returns, and every      *)
(* (group, course list entry) whose course is in the map, of that group    *)
(* and of the others, has its variable: the variables are as many as       *)
(* those entries, and the domains dict has exactly one entry per variable. *)
(***************************************************************************)
KnownEntries ==
    UNION {{<<g, j>> : j \in {i \in DOMAIN lecture_groups[g].courses :
                                 lecture_groups[g].courses[i] \in DOMAIN courses}} :
           g \in DOMAIN lecture_groups}

C12_UnknownCourseSkipped ==
    FromBuild =>
        /\ \A v \in Vars : variables[v].course \in DOMAIN courses
        /\ DOMAIN domains = Vars
        /\ \A p \in KnownEntries :
            \E v \in Vars :
                /\ variables[v].course = lecture_groups[p[1]].courses[p[2]]
                /\ variables[v].section = lecture_groups[p[1]].group_name
        /\ Len(variables) = Cardinality(KnownEntries)

\* A group lists an unknown course; a later entry of the same group and an
\* entry of a later group have their variables.
C12_Witness ==
    /\ FromBuild
    /\ Len(lecture_groups) = 2
    /\ lecture_groups[1].courses[1] \notin DOMAIN courses
    /\ lecture_groups[1].courses[2] \in DOMAIN courses
    /\ lecture_groups[2].courses[1] \in DOMAIN courses
    /\ Len(variables) = 2
    /\ variables[1].section = lecture_groups[1].group_name
    /\ variables[2].section = lecture_groups[2].group_name

(***************************************************************************)
(* C13: build_vars_domains returns at most one variable per (course id,    *)
(* group key) pair: no two positions of the variables list hold the same   *)
(* course id and the same group key, also when a group's course list names *)
(* a course id more than once.  The build appends one variable per entry   *)
(* of the list, so a list "C1, C1" gives two.                              *)
(***************************************************************************)
C13_OneVariablePerPair ==
    FromBuild =>
        \A v, w \in Vars :
            (/\ variables[v].course = variables[w].course
             /\ variables[v].section = variables[w].section) => v = w

(***************************************************************************)
(* C14: for every variable made by build_vars_domains and every (timeslot, *)
(* room, instructor) triple of the entities, the domain holds the triple   *)
(* exactly once if the room category is compatible with the course         *)
(* category, the room capacity is at least the group's student count and   *)
(* the instructor is qualified for the course, and not at all otherwise;   *)
(* every option is such a triple, its qualification flag is true and its   *)
(* preference flag says whether the timeslot is in the instructor's        *)
(* preferred set.  Membership does not depend on the preference.           *)
(***************************************************************************)
TimesInDomain(v, t, r, i) ==
    Cardinality({p \in DOMAIN domains[v] :
                    /\ domains[v][p][1] = t
                    /\ domains[v][p][2] = r.id
                    /\ domains[v][p][3] = i.id})

LegalTriple(v, r, i) ==
    /\ <<courses[variables[v].course].type, r.type>> \in CascadePairs
    /\ r.capacity >= variables[v].students
    /\ variables[v].course \in i.quals

C14_DomainIsLegalTriples ==
    FromBuild =>
        \A v \in Vars :
            /\ \A t \in Range(timeslots) : \A r \in Range(rooms) :
                \A i \in Range(instructors) :
                    TimesInDomain(v, t, r, i) = IF LegalTriple(v, r, i) THEN 1 ELSE 0
            /\ \A p \in DOMAIN domains[v] :
                LET o == domains[v][p]
                IN  /\ o[1] \in Range(timeslots)
                    /\ \E r \in Range(rooms) : r.id = o[2]
                    /\ \E i \in Range(instructors) :
                        /\ i.id = o[3]
                        /\ o[4] = TRUE
                        /\ o[5] = (o[1] \in i.prefs)

\* A built domain with a preferred and a non-preferred option of the same
\* instructor, from which a room and an instructor are filtered out.
C14_Witness ==
    /\ FromBuild
    /\ \E v \in Vars :
        /\ \E p, q \in DOMAIN domains[v] :
            /\ domains[v][p][5] /\ ~domains[v][q][5]
            /\ domains[v][p][3] = domains[v][q][3]
        /\ \E r \in Range(rooms) : \A p \in DOMAIN domains[v] : domains[v][p][2] # r.id
        /\ \E i \in Range(instructors) : \A p \in DOMAIN domains[v] : domains[v][p][3] # i.id

(***************************************************************************)
(* C15: the group key is unique per (year, group identifier) pair: after   *)
(* preprocess the lecture groups, one per distinct (Level, Group) pair of  *)
(* the sheet, carry as many distinct group keys as there are such pairs.   *)
(* The key joins the two cells with "_", so Level "3_A" with Group "1"     *)
(* and Level "3" with Group "A_1" both get "3_A_1".                        *)
(***************************************************************************)
C15_GroupKeyUnique ==
    pc # "preprocess" =>
        Cardinality({lecture_groups[g].group_name : g \in DOMAIN lecture_groups})
            = Cardinality({<<sections[n].Level, sections[n].Group>> : n \in DOMAIN sections})

(***************************************************************************)
(* C16: a step that records a variable as failed leaves the three used     *)
(* sets and the assignments unchanged and appends that one variable to the *)
(* failed list.  Hence, for every failed variable x, what the pass did     *)
(* with every other variable is what a pass over the list without x does:  *)
(* taking as used pairs only those of the variables committed before it    *)
(* in the order without x, a failed variable has no clash-free option and  *)
(* a committed one holds a clash-free option, the first one of the scanned *)
(* list when the stored order is given.                                    *)
(***************************************************************************)
\* The variables committed before v in the pass over the list without x.
CommittedBeforeWithout(v, x) ==
    {w \in Committed \ {x} : PosOf(w) < PosOf(v)}

ClashesAmong(v, o, W) == \E w \in W : ClashesWith(v, o, w)

SameWithout(v, x) ==
    LET W == CommittedBeforeWithout(v, x)
        s == ScanList(v)
    IN  /\ v \in Failed => \A o \in Range(DomainsGet(v)) : ClashesAmong(v, o, W)
        /\ v \in Committed =>
            /\ ~ClashesAmong(v, assigned[v], W)
            /\ ~shuffled =>
                \E n \in DOMAIN s :
                    /\ s[n] = assigned[v]
                    /\ \A m \in 1..(n - 1) : ClashesAmong(v, s[m], W)

C16_FailureLeavesNoTrace ==
    /\ [][\A v \in Vars :
            (v \notin Range(failed_assignments) /\ v \in Range(failed_assignments'))
                => /\ used_room_ts' = used_room_ts
                   /\ used_instr_ts' = used_instr_ts
                   /\ used_section_ts' = used_section_ts
                   /\ assigned' = assigned
                   /\ failed_assignments' = Append(failed_assignments, v)]_vars
    /\ [](pc \in {"loop", "done"} =>
            \A x \in Failed : \A v \in (Committed \cup Failed) \ {x} : SameWithout(v, x))

\* A variable failed on clashes and a later variable of the pass, of the
\* same group, was committed.
C16_Witness ==
    /\ pc = "done"
    /\ \E x \in Failed :
        /\ DomainsGet(x) # <<>>
        /\ \E v \in Committed :
            /\ PosOf(x) < PosOf(v)
            /\ variables[v].section = variables[x].section

(***************************************************************************)
(* C17: commitments are irrevocable.  In every step of a pass a variable   *)
(* that holds an option keeps exactly that option and does not enter the   *)
(* failed list; a variable in the failed list stays there, once, and is    *)
(* not assigned; the three used sets only grow; a step attempts one        *)
(* variable that was not attempted before, and when the pass returns every *)
(* variable has been attempted, so each variable is attempted exactly      *)
(* once.                                                                   *)
(***************************************************************************)
TimesFailed(v) ==
    Cardinality({n \in DOMAIN failed_assignments : failed_assignments[n] = v})

NewlyAttempted ==
    {v \in Vars : /\ v \notin DOMAIN assigned
                  /\ v \notin Range(failed_assignments)
                  /\ (v \in DOMAIN assigned' \/ v \in Range(failed_assignments'))}

C17_CommitmentsIrrevocable ==
    /\ [][pc = "loop" =>
            /\ \A v \in DOMAIN assigned :
                /\ v \in DOMAIN assigned'
                /\ assigned'[v] = assigned[v]
                /\ v \notin Range(failed_assignments')
            /\ \A v \in Range(failed_assignments) :
                /\ v \in Range(failed_assignments')
                /\ v \notin DOMAIN assigned'
            /\ used_room_ts \subseteq used_room_ts'
            /\ used_instr_ts \subseteq used_instr_ts'
            /\ used_section_ts \subseteq used_section_ts'
            /\ Cardinality(NewlyAttempted) = IF k' = k THEN 0 ELSE 1]_vars
    /\ [](/\ Committed \cap Failed = {}
          /\ \A v \in Failed : TimesFailed(v) = 1
          /\ pc = "done" => Committed \cup Failed = Vars)

\* A pass that has returned with a variable committed first, a later one
\* committed too, and a variable failed between or after them.
C17_Witness ==
    /\ pc = "done"
    /\ Cardinality(Committed) >= 2
    /\ Failed # {}
    /\ \E v \in Committed : \E x \in Failed : PosOf(v) < PosOf(x)

====
